---- MODULE Spec2Model ----
(***************************************************************************)
(* Model of src/conjugatedescent.py: class GradientDescent, a conjugate    *)
(* gradient minimiser of a quadratic with a line search whose step length  *)
(* is rounded to 3 decimals.                                               *)
(*                                                                         *)
(* numpy float64 values are modelled by decimal fixed-point numbers with   *)
(* FracLimbs limbs of 4 decimal digits after the point (resolution         *)
(* 10^-20), truncated toward zero after every multiplication and division, *)
(* together with the IEEE special values nan, +inf and -inf that numpy     *)
(* produces on a division by zero (a RuntimeWarning, not an exception).    *)
(* Magnitudes are little-endian sequences of limbs because the values do   *)
(* not fit the 32-bit integers of the model checker.  Signed zeros and    *)
(* the difference between int64 and float64 arrays are not distinguished.  *)
(*                                                                         *)
(* One object is followed from before __init__ to the return of execute;   *)
(* f, del_f, conjugate_direction and exact_step_length are also called     *)
(* directly on the constructed object before execute.  The variables       *)
(* updates and hist record what execute did and are read by no action.     *)
(***************************************************************************)
EXTENDS Integers, Sequences, FiniteSets, TLC

\* ------------------------------------------------------------------------
\* Natural numbers of arbitrary size: little-endian limbs, no high zero limb
\* ------------------------------------------------------------------------
Base == 10000
FracLimbs == 5

RECURSIVE NatNorm(_)
NatNorm(a) ==
    IF a = <<>> THEN <<>>
    ELSE IF a[Len(a)] = 0 THEN NatNorm(SubSeq(a, 1, Len(a) - 1))
    ELSE a

Limb(a, i) == IF i <= Len(a) THEN a[i] ELSE 0

MaxOf(i, j) == IF i >= j THEN i ELSE j

RECURSIVE AddCarry(_, _, _, _)
AddCarry(a, b, i, c) ==
    IF i > MaxOf(Len(a), Len(b))
    THEN (IF c = 0 THEN <<>> ELSE <<c>>)
    ELSE LET s == Limb(a, i) + Limb(b, i) + c
         IN  <<s % Base>> \o AddCarry(a, b, i + 1, s \div Base)

NatAdd(a, b) == AddCarry(a, b, 1, 0)

RECURSIVE SubBorrow(_, _, _, _)
SubBorrow(a, b, i, c) ==
    IF i > Len(a) THEN <<>>
    ELSE LET s == Limb(a, i) - Limb(b, i) - c
         IN  IF s < 0
             THEN <<s + Base>> \o SubBorrow(a, b, i + 1, 1)
             ELSE <<s>> \o SubBorrow(a, b, i + 1, 0)

\* a - b for a >= b
NatSub(a, b) == NatNorm(SubBorrow(a, b, 1, 0))

RECURSIVE CmpFrom(_, _, _)
CmpFrom(a, b, i) ==
    IF i = 0 THEN 0
    ELSE IF a[i] < b[i] THEN -1
    ELSE IF a[i] > b[i] THEN 1
    ELSE CmpFrom(a, b, i - 1)

\* -1, 0, 1 as a < b, a = b, a > b
NatCmp(a, b) ==
    IF Len(a) < Len(b) THEN -1
    ELSE IF Len(a) > Len(b) THEN 1
    ELSE CmpFrom(a, b, Len(a))

RECURSIVE MulSmallCarry(_, _, _, _)
MulSmallCarry(a, d, i, c) ==
    IF i > Len(a)
    THEN (IF c = 0 THEN <<>> ELSE <<c>>)
    ELSE LET s == a[i] * d + c
         IN  <<s % Base>> \o MulSmallCarry(a, d, i + 1, s \div Base)

\* a * d for one limb d
NatMulSmall(a, d) == IF d = 0 THEN <<>> ELSE MulSmallCarry(a, d, 1, 0)

\* a * Base^n
NatShiftL(a, n) == IF a = <<>> THEN <<>> ELSE [i \in 1..n |-> 0] \o a

\* a \div Base^n
NatShiftR(a, n) == IF Len(a) <= n THEN <<>> ELSE SubSeq(a, n + 1, Len(a))

RECURSIVE NatMul(_, _)
NatMul(a, b) ==
    IF b = <<>> \/ a = <<>> THEN <<>>
    ELSE NatAdd(NatMulSmall(a, Head(b)), NatShiftL(NatMul(a, Tail(b)), 1))

\* the largest limb d with b * d <= cur, for b * lo <= cur < b * hi
RECURSIVE MaxDigit(_, _, _, _)
MaxDigit(cur, b, lo, hi) ==
    IF hi - lo <= 1 THEN lo
    ELSE LET mid == (lo + hi) \div 2
         IN  IF NatCmp(NatMulSmall(b, mid), cur) <= 0
             THEN MaxDigit(cur, b, mid, hi)
             ELSE MaxDigit(cur, b, lo, mid)

\* quotient and remainder of (a \div Base^(i-1)) by b, b # 0
RECURSIVE DivFrom(_, _, _)
DivFrom(a, b, i) ==
    IF i > Len(a) THEN [q |-> <<>>, r |-> <<>>]
    ELSE LET hi  == DivFrom(a, b, i + 1)
             cur == NatNorm(<<a[i]>> \o hi.r)
             d   == IF NatCmp(cur, b) < 0 THEN 0 ELSE MaxDigit(cur, b, 1, Base)
         IN  [q |-> NatNorm(<<d>> \o hi.q),
              r |-> NatSub(cur, NatMulSmall(b, d))]

NatDiv(a, b) == DivFrom(a, b, 1).q

\* the limb d put below the limbs of a (a * Base + d)
WithLowLimb(a, d) == NatNorm(<<d>> \o a)

\* the largest limb d with d * (twice * Base + d) <= cur
RECURSIVE MaxRootDigit(_, _, _, _)
MaxRootDigit(cur, twice, lo, hi) ==
    IF hi - lo <= 1 THEN lo
    ELSE LET mid == (lo + hi) \div 2
         IN  IF NatCmp(NatMulSmall(WithLowLimb(twice, mid), mid), cur) <= 0
             THEN MaxRootDigit(cur, twice, mid, hi)
             ELSE MaxRootDigit(cur, twice, lo, mid)

\* floor of the square root of n \div Base^(i-1), i odd, and the remainder,
\* two limbs of n at a time
RECURSIVE SqrtFrom(_, _)
SqrtFrom(n, i) ==
    IF i > Len(n) THEN [s |-> <<>>, r |-> <<>>]
    ELSE LET hi    == SqrtFrom(n, i + 2)
             cur   == NatNorm(<<n[i], Limb(n, i + 1)>> \o hi.r)
             twice == NatMulSmall(hi.s, 2)
             d     == MaxRootDigit(cur, twice, 0, Base)
         IN  [s |-> WithLowLimb(hi.s, d),
              r |-> NatSub(cur, NatMulSmall(WithLowLimb(twice, d), d))]

NatSqrt(n) == SqrtFrom(n, 1).s

RECURSIVE NatFromInt(_)
NatFromInt(n) == IF n = 0 THEN <<>> ELSE <<n % Base>> \o NatFromInt(n \div Base)

\* 10^k, Base being 10^4
NatPow10(k) ==
    NatShiftL(<<CASE k % 4 = 0 -> 1 [] k % 4 = 1 -> 10
                  [] k % 4 = 2 -> 100 [] OTHER -> 1000>>, k \div 4)

\* ------------------------------------------------------------------------
\* float64 values: finite fixed-point numbers s * m / Base^FracLimbs, nan,
\* and the two infinities
\* ------------------------------------------------------------------------
NaN == [c |-> "nan", s |-> 1, m |-> <<>>]
Inf(sgn) == [c |-> "inf", s |-> sgn, m |-> <<>>]
Fin(sgn, mag) == [c |-> "fin", s |-> IF mag = <<>> THEN 1 ELSE sgn, m |-> mag]

IsFinite(x) == x.c = "fin"
IsNaN(x) == x.c = "nan"
IsZero(x) == x.c = "fin" /\ x.m = <<>>

Abs(n) == IF n < 0 THEN -n ELSE n
Sign(n) == IF n < 0 THEN -1 ELSE 1

\* the float n / 10^d for an integer n and 0 <= d <= 4 * FracLimbs
FromDecimal(n, d) ==
    Fin(Sign(n), NatMul(NatFromInt(Abs(n)), NatPow10(4 * FracLimbs - d)))

FromInt(n) == Fin(Sign(n), NatShiftL(NatFromInt(Abs(n)), FracLimbs))

FNeg(x) == IF x.c = "nan" THEN NaN
           ELSE IF x.c = "inf" THEN Inf(-x.s)
           ELSE Fin(-x.s, x.m)

FAdd(x, y) ==
    IF x.c = "nan" \/ y.c = "nan" THEN NaN
    ELSE IF x.c = "inf" /\ y.c = "inf" THEN (IF x.s = y.s THEN x ELSE NaN)
    ELSE IF x.c = "inf" THEN x
    ELSE IF y.c = "inf" THEN y
    ELSE IF x.s = y.s THEN Fin(x.s, NatAdd(x.m, y.m))
    ELSE IF NatCmp(x.m, y.m) >= 0 THEN Fin(x.s, NatSub(x.m, y.m))
    ELSE Fin(y.s, NatSub(y.m, x.m))

FSub(x, y) == FAdd(x, FNeg(y))

FMul(x, y) ==
    IF x.c = "nan" \/ y.c = "nan" THEN NaN
    ELSE IF x.c = "inf" \/ y.c = "inf"
         THEN (IF IsZero(x) \/ IsZero(y) THEN NaN ELSE Inf(x.s * y.s))
    ELSE Fin(x.s * y.s, NatShiftR(NatMul(x.m, y.m), FracLimbs))

FDiv(x, y) ==
    IF x.c = "nan" \/ y.c = "nan" THEN NaN
    ELSE IF x.c = "inf" THEN (IF y.c = "inf" THEN NaN ELSE Inf(x.s * y.s))
    ELSE IF y.c = "inf" THEN Fin(1, <<>>)
    ELSE IF IsZero(y) THEN (IF IsZero(x) THEN NaN ELSE Inf(x.s))
    ELSE Fin(x.s * y.s, NatDiv(NatShiftL(x.m, FracLimbs), y.m))

\* np.sqrt
FSqrt(x) ==
    IF x.c = "nan" THEN NaN
    ELSE IF x.c = "inf" THEN (IF x.s = 1 THEN x ELSE NaN)
    ELSE IF x.s = -1 THEN NaN
    ELSE Fin(1, NatSqrt(NatShiftL(x.m, FracLimbs)))

\* x <= y; every comparison with nan is false
FLe(x, y) ==
    IF x.c = "nan" \/ y.c = "nan" THEN FALSE
    ELSE IF x.c = "inf" THEN (x.s = -1 \/ (y.c = "inf" /\ y.s = 1))
    ELSE IF y.c = "inf" THEN y.s = 1
    ELSE IF x.s # y.s THEN x.s = -1
    ELSE IF x.s = 1 THEN NatCmp(x.m, y.m) <= 0
    ELSE NatCmp(x.m, y.m) >= 0

\* round(x, decimal_places) of a float64: to the nearest multiple of
\* 10^-decimal_places, halves to the even one; nan and inf are returned
FRound(x, decimal_places) ==
    IF x.c # "fin" THEN x
    ELSE LET unit == NatPow10(4 * FracLimbs - decimal_places)
             qr   == DivFrom(x.m, unit, 1)
             twice == NatMulSmall(qr.r, 2)
             up   == \/ NatCmp(twice, unit) > 0
                     \/ (NatCmp(twice, unit) = 0 /\ Limb(qr.q, 1) % 2 = 1)
             q    == IF up THEN NatAdd(qr.q, <<1>>) ELSE qr.q
         IN  Fin(x.s, NatMul(q, unit))

\* ------------------------------------------------------------------------
\* numpy vectors and matrices: sequences of floats, sequences of rows
\* ------------------------------------------------------------------------
VecFromInts(v) == [i \in 1..Len(v) |-> FromInt(v[i])]
MatFromInts(a) == [i \in 1..Len(a) |-> VecFromInts(a[i])]

\* broadcasting of a one-element array
Elem(v, i) == IF Len(v) = 1 THEN v[1] ELSE v[i]
BroadcastRaises(u, v) == Len(u) # Len(v) /\ Len(u) # 1 /\ Len(v) # 1

RECURSIVE SumProducts(_, _, _)
SumProducts(u, v, i) ==
    IF i > Len(u) THEN FromInt(0)
    ELSE FAdd(FMul(u[i], v[i]), SumProducts(u, v, i + 1))

\* u.dot(v) of two vectors; ValueError when the lengths differ
DotRaises(u, v) == Len(u) # Len(v)
dot(u, v) == SumProducts(u, v, 1)

\* np.matmul(a, x) and x.dot(a) of a matrix and a vector
MatmulRaises(a, x) == a = <<>> \/ \E i \in 1..Len(a) : Len(a[i]) # Len(x)
matmul(a, x) == [i \in 1..Len(a) |-> dot(a[i], x)]
Column(a, j) == [i \in 1..Len(a) |-> a[i][j]]
VecMatRaises(x, a) ==
    a = <<>> \/ Len(a) # Len(x) \/ \E i \in 1..Len(a) : Len(a[i]) # Len(a[1])
vecmat(x, a) == [j \in 1..Len(a[1]) |-> dot(x, Column(a, j))]

np_add(u, v) ==
    [i \in 1..MaxOf(Len(u), Len(v)) |-> FAdd(Elem(u, i), Elem(v, i))]
Scale(c, v) == [i \in 1..Len(v) |-> FMul(c, v[i])]

\* ------------------------------------------------------------------------
\* Inputs
\* ------------------------------------------------------------------------
MaxIterationsBound == 5
DefaultMaxIterations == 10

MaxIterationsArgs == (0..MaxIterationsBound) \cup {DefaultMaxIterations}

\* constructor arguments: None, a list, or a numpy array of size elements
NoneArg == [kind |-> "None", val |-> <<>>, size |-> 0]
ListArg(v) == [kind |-> "list", val |-> v, size |-> Len(v)]
NdArrayArg(v, n) == [kind |-> "ndarray", val |-> v, size |-> n]

DefaultHessian == <<<<10, 4>>, <<4, 2>>>>
DefaultLinearTerms == <<-14, -6>>

HessianArgs ==
    { NoneArg,
      ListArg(<<<<2, 0>>, <<0, 2>>>>),           \* symmetric, positive definite
      ListArg(<<<<0, 0>>, <<0, 0>>>>),           \* zero curvature everywhere
      ListArg(<<<<10, 4>>, <<2, 2>>>>),          \* not symmetric
      ListArg(<<<<10, 4, 1>>, <<4, 2, 1>>>>),    \* not square
      NdArrayArg(DefaultHessian, 4) }

LinearTermsArgs ==
    { NoneArg,
      ListArg(<<-14, -6>>),
      ListArg(<<-14, -6, 1>>),                   \* dimension differs from the Hessian's
      NdArrayArg(DefaultLinearTerms, 2) }

\* points and directions of the direct calls of f, del_f, conjugate_direction
\* and exact_step_length
Points == { VecFromInts(<<0, 0>>), VecFromInts(<<1, -2>>) }

\* ------------------------------------------------------------------------
\* State of one GradientDescent object and of its caller
\* ------------------------------------------------------------------------
VARIABLES
    pc,                  \* "new", "ready", "loop", "break", "returned", "raised"
    Hessian,             \* self.Hessian
    LinearCoefficients,  \* self.LinearCoefficients
    Minimiser,           \* self.Minimiser
    CurrentIteration,    \* self.CurrentIteration
    MaxIterations,       \* self.MaxIterations
    Epsilon,             \* self.Epsilon
    LastConjugate,       \* self._LastConjugate, <<>> for None
    k,                   \* the loop variable of execute
    ret,                 \* what the last call gave its caller
    updates,             \* number of assignments to self.Minimiser by execute
    hist                 \* xk, gk, pk, step_length of every iteration (line 78)

vars == <<pc, Hessian, LinearCoefficients, Minimiser, CurrentIteration,
          MaxIterations, Epsilon, LastConjugate, k, ret, updates, hist>>

NoRet == [fn |-> "", raised |-> "", arg |-> <<>>, val |-> <<>>]
Returned(fn, arg, val) == [fn |-> fn, raised |-> "", arg |-> arg, val |-> val]
Raised(fn, arg, err) == [fn |-> fn, raised |-> err, arg |-> arg, val |-> <<>>]

\* ------------------------------------------------------------------------
\* GradientDescent
\* ------------------------------------------------------------------------
\* the start point of every run
InitialPoint == VecFromInts(<<0, 0>>)

\* bool(a) as "a or default" evaluates it: the truth value of an array of
\* more than one element is a ValueError
TruthRaises(a) == a.kind = "ndarray" /\ a.size > 1
Truth(a) ==
    IF a.kind = "None" THEN FALSE
    ELSE IF a.kind = "list" THEN a.size > 0
    ELSE a.size = 1 /\ \E i \in 1..Len(a.val) : a.val[i] # 0

\* a or np.array(default)
OrDefault(a, default) ==
    IF Truth(a) THEN [kind |-> a.kind, val |-> a.val]
    ELSE [kind |-> "ndarray", val |-> default]

\* __init__
Construct(max_iterations, hessian_matrix, linear_terms) ==
    /\ pc = "new"
    /\ IF TruthRaises(hessian_matrix) \/ TruthRaises(linear_terms)
       THEN /\ pc' = "raised"
            /\ ret' = Raised("__init__", <<>>, "ValueError")
            /\ UNCHANGED <<Hessian, LinearCoefficients, Minimiser,
                           CurrentIteration, MaxIterations, Epsilon,
                           LastConjugate>>
       ELSE /\ pc' = "ready"
            /\ Hessian' =
                 LET h == OrDefault(hessian_matrix, DefaultHessian)
                 IN  [kind |-> h.kind, val |-> MatFromInts(h.val)]
            /\ LinearCoefficients' =
                 LET b == OrDefault(linear_terms, DefaultLinearTerms)
                 IN  [kind |-> b.kind, val |-> VecFromInts(b.val)]
            /\ Minimiser' = InitialPoint
            /\ CurrentIteration' = 0
            /\ MaxIterations' = max_iterations
            /\ Epsilon' = FromDecimal(1, 6)
            /\ LastConjugate' = <<>>
            /\ ret' = Returned("__init__", <<>>, <<>>)
    /\ UNCHANGED <<k, updates, hist>>

\* f: the hard coded objective, rounded
f(xk, decimal_places) ==
    LET x1 == xk[1]
        x2 == xk[2]
        fn_value ==
          FAdd(FSub(FSub(FAdd(FAdd(FMul(FromInt(5), FMul(x1, x1)),
                                   FMul(x2, x2)),
                              FMul(FMul(FromInt(4), x1), x2)),
                         FMul(FromInt(14), x1)),
                    FMul(FromInt(6), x2)),
               FromInt(20))
    IN  FRound(fn_value, decimal_places)

\* del_f
del_f_raises(xk) ==
    \/ MatmulRaises(Hessian.val, xk)
    \/ /\ LinearCoefficients.kind = "ndarray"
       /\ BroadcastRaises(matmul(Hessian.val, xk), LinearCoefficients.val)

del_f(xk) ==
    LET gradient_vector == matmul(Hessian.val, xk)
    IN  IF LinearCoefficients.kind = "ndarray"
        THEN np_add(gradient_vector, LinearCoefficients.val)
        ELSE gradient_vector

\* __current_gradient_value, at the iterate x
current_gradient_value(x) ==
    LET gradient == del_f(x) IN FSqrt(dot(gradient, gradient))

\* conjugate_direction, called with self.CurrentIteration = iteration and
\* self._LastConjugate = last; the value returned is also the new
\* self._LastConjugate.  None has no dot: AttributeError
conjugate_direction_raises(iteration, last) == iteration # 0 /\ last = <<>>

conjugate_direction(iteration, last, gk) ==
    IF iteration = 0 THEN Scale(FromInt(-1), gk)
    ELSE LET gk_previous == last
             bk == FDiv(dot(gk, gk), dot(gk_previous, gk_previous))
         IN  np_add(Scale(FromInt(-1), gk), Scale(bk, gk_previous))

\* exact_step_length without the final "* -1"
exact_step_length_not_negated(gk, pk, decimal_places) ==
    LET numerator == dot(gk, pk)
        denominator == dot(vecmat(pk, Hessian.val), pk)
        step_length == FDiv(numerator, denominator)
    IN  FRound(step_length, decimal_places)

\* exact_step_length
exact_step_length_raises(gk, pk) ==
    \/ DotRaises(gk, pk)
    \/ VecMatRaises(pk, Hessian.val)
    \/ DotRaises(vecmat(pk, Hessian.val), pk)

exact_step_length(gk, pk, decimal_places) ==
    LET numerator == dot(gk, pk)
        denominator == dot(vecmat(pk, Hessian.val), pk)
        step_length == FDiv(numerator, denominator)
    IN  FMul(FRound(step_length, decimal_places), FromInt(-1))

\* _find_next_candidate, called with self.CurrentIteration = iteration: what
\* it raises, or the locals it computes
find_next_candidate(iteration) ==
    LET xk == Minimiser
        gk == del_f(xk)
        pk == conjugate_direction(iteration, LastConjugate, gk)
        step_length == exact_step_length(gk, pk, 3)
    IN  IF del_f_raises(xk) THEN [raised |-> "ValueError"]
        ELSE IF conjugate_direction_raises(iteration, LastConjugate)
        THEN [raised |-> "AttributeError"]
        ELSE IF exact_step_length_raises(gk, pk) THEN [raised |-> "ValueError"]
        ELSE [raised |-> "", xk |-> xk, gk |-> gk, pk |-> pk,
              gk_previous |-> IF iteration = 0 THEN <<>> ELSE LastConjugate,
              step_length |-> step_length,
              x_k_plus1 |-> np_add(xk, Scale(step_length, pk))]

\* direct calls of the methods on the constructed object, before execute
CallF(x) ==
    /\ pc = "ready"
    /\ ret' = Returned("f", <<x>>, <<f(x, 3)>>)
    /\ UNCHANGED <<pc, Hessian, LinearCoefficients, Minimiser, CurrentIteration,
                   MaxIterations, Epsilon, LastConjugate, k, updates, hist>>

CallDelF(x) ==
    /\ pc = "ready"
    /\ ret' = IF del_f_raises(x) THEN Raised("del_f", <<x>>, "ValueError")
              ELSE Returned("del_f", <<x>>, <<del_f(x)>>)
    /\ UNCHANGED <<pc, Hessian, LinearCoefficients, Minimiser, CurrentIteration,
                   MaxIterations, Epsilon, LastConjugate, k, updates, hist>>

CallConjugateDirection(g) ==
    /\ pc = "ready"
    /\ IF conjugate_direction_raises(CurrentIteration, LastConjugate)
       THEN /\ ret' = Raised("conjugate_direction", <<g>>, "AttributeError")
            /\ UNCHANGED LastConjugate
       ELSE LET pk == conjugate_direction(CurrentIteration, LastConjugate, g)
            IN  /\ LastConjugate' = pk
                /\ ret' = Returned("conjugate_direction", <<g>>, <<pk>>)
    /\ UNCHANGED <<pc, Hessian, LinearCoefficients, Minimiser, CurrentIteration,
                   MaxIterations, Epsilon, k, updates, hist>>

CallExactStepLength(g, p) ==
    /\ pc = "ready"
    /\ ret' = IF exact_step_length_raises(g, p)
              THEN Raised("exact_step_length", <<g, p>>, "ValueError")
              ELSE Returned("exact_step_length", <<g, p>>,
                            <<exact_step_length(g, p, 3)>>)
    /\ UNCHANGED <<pc, Hessian, LinearCoefficients, Minimiser, CurrentIteration,
                   MaxIterations, Epsilon, LastConjugate, k, updates, hist>>

\* execute, up to the for statement
ExecuteStart ==
    /\ pc = "ready"
    /\ pc' = "loop"
    /\ k' = 0
    /\ ret' = NoRet
    /\ updates' = 0
    /\ hist' = <<>>
    /\ UNCHANGED <<Hessian, LinearCoefficients, Minimiser, CurrentIteration,
                   MaxIterations, Epsilon, LastConjugate>>

\* execute: one pass through the body of the for statement, as far as it
\* assigns
IterationBody ==
    /\ pc = "loop"
    /\ k < MaxIterations
    /\ CurrentIteration' = k
    /\ \E c \in {find_next_candidate(k)} :      \* evaluated once
           IF c.raised # ""
           THEN /\ pc' = "raised"
                /\ ret' = Raised("execute", <<>>, c.raised)
                /\ UNCHANGED <<Minimiser, LastConjugate, k, updates, hist>>
           ELSE /\ Minimiser' = c.x_k_plus1
                /\ LastConjugate' = c.pk
                /\ updates' = updates + 1
                /\ hist' = Append(hist, c)
                /\ IF FLe(current_gradient_value(c.x_k_plus1), Epsilon)
                   THEN pc' = "break" /\ k' = k
                   ELSE pc' = "loop" /\ k' = k + 1
                /\ ret' = ret

\* a loop that uses up its own budget
ExecuteIterationConsumesBudget ==
    /\ IterationBody
    /\ MaxIterations' = MaxIterations - 1
    /\ UNCHANGED <<Hessian, LinearCoefficients, Epsilon>>

ExecuteIteration ==
    /\ IterationBody
    /\ UNCHANGED <<Hessian, LinearCoefficients, MaxIterations, Epsilon>>

\* execute: after the for statement
ExecuteReturn ==
    /\ \/ pc = "break"
       \/ pc = "loop" /\ k >= MaxIterations
    /\ IF del_f_raises(Minimiser)
       THEN /\ pc' = "raised"
            /\ ret' = Raised("execute", <<>>, "ValueError")
       ELSE /\ pc' = "returned"
            /\ ret' = Returned("execute", <<>>,
                               <<Minimiser,
                                 <<f(Minimiser, 3)>>,
                                 <<FRound(current_gradient_value(Minimiser), 3)>> >>)
    /\ UNCHANGED <<Hessian, LinearCoefficients, Minimiser, CurrentIteration,
                   MaxIterations, Epsilon, LastConjugate, k, updates, hist>>

Init ==
    /\ pc = "new"
    /\ Hessian = [kind |-> "None", val |-> <<>>]
    /\ LinearCoefficients = [kind |-> "None", val |-> <<>>]
    /\ Minimiser = <<>>
    /\ CurrentIteration = 0
    /\ MaxIterations = 0
    /\ Epsilon = FromInt(0)
    /\ LastConjugate = <<>>
    /\ k = 0
    /\ ret = NoRet
    /\ updates = 0
    /\ hist = <<>>

Next ==
    \/ \E n \in MaxIterationsArgs, h \in HessianArgs, b \in LinearTermsArgs :
          Construct(n, h, b)
    \/ \E x \in Points : CallF(x)
    \/ \E x \in Points : CallDelF(x)
    \/ \E g \in Points : CallConjugateDirection(g)
    \/ \E g \in Points, p \in Points : CallExactStepLength(g, p)
    \/ ExecuteStart
    \/ ExecuteIteration
    \/ ExecuteReturn

Spec == Init /\ [][Next]_vars

\* ------------------------------------------------------------------------
\* Properties
\* ------------------------------------------------------------------------
Tolerance == FromDecimal(1, 5)
ConjugacyTolerance == FromDecimal(1, 3)

\* |x - n| <= tol
Near(x, n, tol) ==
    /\ FLe(FSub(x, FromInt(n)), tol)
    /\ FLe(FSub(FromInt(n), x), tol)

\* the object exists: __init__ returned
Constructed ==
    \/ pc \in {"ready", "loop", "break", "returned"}
    \/ pc = "raised" /\ ret.fn = "execute"

\* constructed with no hessian_matrix, no linear_terms and max_iterations 10
DefaultProblem ==
    /\ Constructed
    /\ Hessian = [kind |-> "ndarray", val |-> MatFromInts(DefaultHessian)]
    /\ LinearCoefficients =
         [kind |-> "ndarray", val |-> VecFromInts(DefaultLinearTerms)]
DefaultConfiguration == DefaultProblem /\ MaxIterations = DefaultMaxIterations

ExecuteResult(minimiser, value, gradient) ==
    /\ pc = "returned"
    /\ Near(ret.val[1][1], minimiser[1], Tolerance)
    /\ Near(ret.val[1][2], minimiser[2], Tolerance)
    /\ Near(ret.val[2][1], value, Tolerance)
    /\ Near(ret.val[3][1], gradient, Tolerance)
    /\ FLe(current_gradient_value(ret.val[1]), Epsilon)

\* C1, as claimed: with the default configuration execute returns a
\* minimiser close to [1, 2], the objective value 11.0 and the gradient
\* norm 0.0, the gradient being within the tolerance
C1_Original ==
    (pc = "returned" /\ DefaultConfiguration)
        => ExecuteResult(<<1, 2>>, 11, 0)

\* C1, amended: with the default configuration execute returns a minimiser
\* close to [1, 1], the objective value 10.0 and the gradient norm 0.0, the
\* gradient being within the tolerance
C1_DefaultConverges ==
    (pc = "returned" /\ DefaultConfiguration)
        => ExecuteResult(<<1, 1>>, 10, 0)

C1_Witness ==
    /\ pc = "returned"
    /\ DefaultConfiguration
    /\ updates > 0
    /\ updates < MaxIterations

\* C2: execute never raises, performs at most max_iterations updates, and
\* stops before the budget is used up only with a gradient norm within
\* Epsilon at the iterate just assigned
C2_ExecuteReturns ==
    /\ updates <= MaxIterations
    /\ ret.fn = "execute" => ret.raised = ""
    /\ (pc \in {"break", "returned"} /\ updates < MaxIterations)
           => FLe(current_gradient_value(Minimiser), Epsilon)

IsSquare(a) == \A i \in 1..Len(a) : Len(a[i]) = Len(a)
IsSymmetric(a) ==
    IsSquare(a) /\ \A i \in 1..Len(a), j \in 1..Len(a) : a[i][j] = a[j][i]
Positive(x) == IsFinite(x) /\ ~IsZero(x) /\ x.s = 1
\* a symmetric 2 x 2 matrix with positive leading minors
PositiveDefinite(a) ==
    /\ Len(a) = 2
    /\ IsSymmetric(a)
    /\ Positive(a[1][1])
    /\ Positive(FSub(FMul(a[1][1], a[2][2]), FMul(a[1][2], a[2][1])))

\* C3: with a positive definite Hessian, no iteration of execute increases
\* the objective value f
C3_MonotonicDecrease ==
    (Constructed /\ PositiveDefinite(Hessian.val))
        => \A i \in 1..Len(hist) :
               FLe(f(hist[i].x_k_plus1, 3), f(hist[i].xk, 3))

\* C4: when the gradient norm at the initial point is within Epsilon,
\* execute returns the initial point and has not updated the iterate
C4_EarlyTermination ==
    (pc = "returned" /\ FLe(current_gradient_value(InitialPoint), Epsilon))
        => (ret.val[1] = InitialPoint /\ updates = 0)

Curvature(p) == dot(vecmat(p, Hessian.val), p)

\* C5: exact_step_length raises DegenerateDirection for a direction of zero
\* curvature, and no iteration uses a step length that is infinite or nan
C5_DegenerateDirection ==
    /\ (ret.fn = "exact_step_length" /\ IsZero(Curvature(ret.arg[2])))
           => ret.raised = "DegenerateDirection"
    /\ \A i \in 1..Len(hist) :
           /\ IsFinite(hist[i].step_length)
           /\ \A j \in 1..Len(hist[i].x_k_plus1) :
                  IsFinite(hist[i].x_k_plus1[j])

\* C6: del_f(x) returns A * x + b for the Hessian A and the linear
\* coefficients b the object holds
C6_GradientCorrect ==
    (/\ ret.fn = "del_f"
     /\ ret.raised = ""
     /\ Len(LinearCoefficients.val) = Len(Hessian.val))
        => ret.val[1] = np_add(matmul(Hessian.val, ret.arg[1]),
                               LinearCoefficients.val)

Malformed(a, b) ==
    \/ ~IsSquare(a)
    \/ ~IsSymmetric(a)
    \/ Len(a) # Len(b)

\* C7: no object is constructed from a Hessian that is not square or not
\* symmetric, or whose dimension differs from the linear coefficients'
C7_MalformedRejected ==
    Constructed => ~Malformed(Hessian.val, LinearCoefficients.val)

\* C8: with the default problem, the directions of two different
\* iterations are conjugate: |p_i A p_j| is within the tolerance
C8_Conjugacy ==
    DefaultProblem
        => \A i \in 1..Len(hist), j \in 1..Len(hist) :
               i < j => Near(dot(vecmat(hist[i].pk, Hessian.val), hist[j].pk),
                             0, ConjugacyTolerance)

\* the Fletcher-Reeves direction from the gradients g, g_previous and the
\* previous direction p_previous
FletcherReeves(g, g_previous, p_previous) ==
    np_add(Scale(FromInt(-1), g),
           Scale(FDiv(dot(g, g), dot(g_previous, g_previous)), p_previous))

\* C9: the direction of iteration 0 is -g_0, and the direction of every
\* later iteration k is -g_k + (g_k.g_k / g_(k-1).g_(k-1)) * p_(k-1)
C9_FletcherReeves ==
    \A i \in 1..Len(hist) :
        IF i = 1
        THEN hist[i].pk = Scale(FromInt(-1), hist[i].gk)
        ELSE hist[i].pk =
                 FletcherReeves(hist[i].gk, hist[i - 1].gk, hist[i - 1].pk)

\* C10: once the object is constructed, no step changes the Hessian, the
\* linear coefficients, the tolerance or the iteration budget; a pass
\* through the loop body assigns the iterate once, and no other step
\* assigns it
C10_Frame ==
    [][Constructed =>
         /\ Hessian' = Hessian
         /\ LinearCoefficients' = LinearCoefficients
         /\ Epsilon' = Epsilon
         /\ MaxIterations' = MaxIterations
         /\ IF pc = "loop" /\ pc' \in {"loop", "break"}
            THEN updates' = updates + 1
            ELSE Minimiser' = Minimiser]_vars

C10_Witness ==
    /\ pc = "returned"
    /\ updates > 1
    /\ Hessian.kind = "list"

====
